---------------------------- MODULE Spec2Model ----------------------------
(***************************************************************************)
(* FarmGPS: the character-at-a-time NMEA / Trimble decoder of FarmGPS.cpp  *)
(* and the accessors of FarmGPS.h, as a state machine.                     *)
(*                                                                         *)
(* Bytes are the integers 0..255.  A float is a fixed-point integer in     *)
(* thousandths (545.4 is 545400); digits after the third decimal are       *)
(* dropped, as is the rounding of a 32-bit float.  The members date,       *)
(* new_date, new_GGA_fix, new_VTG_fix, new_XTE_fix are never written after *)
(* construction nor read by decode and are left out; so is                 *)
(* encoded_characters, which decode increments but nothing can read        *)
(* (stats() is compiled out by GPS_NO_STATS, FarmGPS.h:48).                *)
(***************************************************************************)
EXTENDS Integers, Sequences, FiniteSets, TLC

(***************************************************************************)
(* Program constants.                                                      *)
(***************************************************************************)
\* sizeof(term), FarmGPS.h:78
TermSize == 20
\* GPS_INVALID_FLOAT 999999.9, in thousandths
GPS_INVALID_FLOAT == 999999900
\* the Trimble id byte of decode's first case
TRIMBLE_ID == 191
\* the byte before the Trimble terminator
DLE == 16
\* the Trimble terminator
ETX == 3

\* "GPGGA", "GPVTG", "GPXTE", "ROXTE" (FarmGPS.h:40-43)
GPGGA_TERM == <<71, 80, 71, 71, 65>>
GPVTG_TERM == <<71, 80, 86, 84, 71>>
GPXTE_TERM == <<71, 80, 88, 84, 69>>
ROXTE_TERM == <<82, 79, 88, 84, 69>>

(***************************************************************************)
(* Machine arithmetic.                                                     *)
(***************************************************************************)
\* conversion to byte (unsigned 8 bit)
ToByte(x) == x % 256

\* an int of the AVR build (16 bit, two's complement wrap)
ToInt(x) == ((x + 32768) % 65536) - 32768

\* bit k of x
Bit(x, k) == (x \div (2 ^ k)) % 2

\* a ^ b on bytes
Xor8(a, b) ==
  LET x == a
      y == b
  IN ((Bit(x, 0) + Bit(y, 0)) % 2) + 2 * ((Bit(x, 1) + Bit(y, 1)) % 2)
     + 4 * ((Bit(x, 2) + Bit(y, 2)) % 2) + 8 * ((Bit(x, 3) + Bit(y, 3)) % 2)
     + 16 * ((Bit(x, 4) + Bit(y, 4)) % 2) + 32 * ((Bit(x, 5) + Bit(y, 5)) % 2)
     + 64 * ((Bit(x, 6) + Bit(y, 6)) % 2) + 128 * ((Bit(x, 7) + Bit(y, 7)) % 2)

\* the value of a char holding byte b: negative above 127 where char is signed
CharVal(signed, b) == IF signed /\ b >= 128 THEN b - 256 ELSE b

(***************************************************************************)
(* Primitive converters.                                                   *)
(***************************************************************************)
IsDigit(b) == b \in 48..57
IsSpace(b) == b = 32 \/ b \in 9..13

\* the C string held in buffer t (a function on 0..TermSize-1): the bytes
\* before the first NUL, as a sequence
RECURSIVE StrLen(_, _)
StrLen(t, i) == IF i >= TermSize \/ t[i] = 0 THEN i ELSE StrLen(t, i + 1)

CStr(t) == [i \in 1..StrLen(t, 0) |-> t[i - 1]]

\* the weight, in thousandths, of fraction digit number k (0 is the first)
FracWeight(k) == IF k = 0 THEN 100 ELSE IF k = 1 THEN 10 ELSE IF k = 2 THEN 1 ELSE 0

\* The scan strtod and atoi make of s from position i: blanks, a sign, digits
\* and, where point is TRUE, a decimal point and more digits; it stops at the
\* first character that fits nowhere.  phase is 0 in the blanks, 1 after a
\* sign or a digit, 2 after the point.  a.val is the magnitude read so far in
\* thousandths, a.fd the number of fraction digits read, a.seen whether any
\* digit was read.  (Exponents, "inf" and "nan" are not modelled: no input of
\* the model writes them.)
RECURSIVE ScanNumber(_, _, _, _, _)
ScanNumber(s, i, phase, point, a) ==
  IF i > Len(s) THEN a
  ELSE IF phase = 0 /\ IsSpace(s[i]) THEN ScanNumber(s, i + 1, 0, point, a)
  ELSE IF phase = 0 /\ s[i] \in {43, 45}
  THEN ScanNumber(s, i + 1, 1, point, [a EXCEPT !.neg = (s[i] = 45)])
  ELSE IF phase \in {0, 1} /\ IsDigit(s[i])
  THEN ScanNumber(s, i + 1, 1, point,
                  [a EXCEPT !.val = 10 * a.val + 1000 * (s[i] - 48), !.seen = TRUE])
  ELSE IF phase \in {0, 1} /\ point /\ s[i] = 46
  THEN ScanNumber(s, i + 1, 2, point, a)
  ELSE IF phase = 2 /\ IsDigit(s[i])
  THEN ScanNumber(s, i + 1, 2, point,
                  [a EXCEPT !.val = a.val + FracWeight(a.fd) * (s[i] - 48),
                            !.fd = a.fd + 1, !.seen = TRUE])
  ELSE a

ScanStart == [neg |-> FALSE, val |-> 0, fd |-> 0, seen |-> FALSE]

\* the signed value of a finished scan; text that starts no number gives 0
ScanValue(a) == IF ~a.seen THEN 0 ELSE IF a.neg THEN -a.val ELSE a.val

\* atof, in thousandths
atof(s) == ScanValue(ScanNumber(s, 1, 0, TRUE, ScanStart))

\* atoi
atoi(s) == ScanValue(ScanNumber(s, 1, 0, FALSE, ScanStart)) \div 1000

\* truncation toward zero of x / d (float to int conversion)
TruncDiv(x, d) == IF x >= 0 THEN x \div d ELSE -((-x) \div d)

parse_decimal(s) == atof(s)

\* int _left = _f / 100; float _right = _f - _left * 100;
\* return _left + _right / 60.0: thousandths of a degree from thousandths f
Degrees(f, left) == left * 1000 + TruncDiv(f - left * 100000, 60)

DegreesOf(f) == Degrees(f, TruncDiv(f, 100000))

\* lines 70-77, with the minutes taken as hundredths of a degree
parse_degrees_decimal(s) == atof(s) \div 100

\* float parse_degrees(const char *s): ddmm.mmm to degrees
parse_degrees(s) == DegreesOf(atof(s))

parse_integer(s) == atoi(s)

\* the character at position i of C string s, its terminating NUL included
CharOf(s, i) == IF i <= Len(s) THEN s[i] ELSE 0

\* FarmGPS::strcmp: walks both strings while they agree; TRUE when the NUL of
\* the first is reached, FALSE at the first difference
RECURSIVE StrSame(_, _, _)
StrSame(s1, s2, i) ==
  IF CharOf(s1, i) # CharOf(s2, i) THEN FALSE
  ELSE IF CharOf(s1, i) = 0 THEN TRUE
  ELSE StrSame(s1, s2, i + 1)

strcmp(s1, s2) == StrSame(s1, s2, 1)

hex_to_int(c) ==
  IF c >= 65 /\ c <= 70 THEN c - 65 + 10
  ELSE IF c >= 97 /\ c <= 102 THEN c - 97 + 10
  ELSE c - 48

(***************************************************************************)
(* The decoder object.  A state of it is a record with the data members of *)
(* FarmGPS.h; term is a function on 0..TermSize-1.                         *)
(***************************************************************************)
Types == {"GGA", "VTG", "XTE", "XTE2", "OTHER"}

\* What the constructor leaves unset holds whatever the storage held: zero
\* for an object of static storage, anything else otherwise.  A fill gives
\* the content of the unset flags, shadow fields and term[1..19].
UninitFills ==
  { [flag |-> FALSE, num |-> 0, byte |-> 0],
    [flag |-> TRUE, num |-> 7777, byte |-> 255] }

\* FarmGPS::FarmGPS()
Constructed(fill) ==
  [ time |-> GPS_INVALID_FLOAT, latitude |-> GPS_INVALID_FLOAT,
    longitude |-> GPS_INVALID_FLOAT, altitude |-> GPS_INVALID_FLOAT,
    speed |-> GPS_INVALID_FLOAT, course |-> GPS_INVALID_FLOAT,
    xte |-> GPS_INVALID_FLOAT, quality |-> 0,
    new_time |-> fill.num, new_latitude |-> fill.num,
    new_longitude |-> fill.num, new_altitude |-> fill.num,
    new_speed |-> fill.num, new_course |-> fill.num, new_xte |-> fill.num,
    new_quality |-> fill.num,
    last_GGA_fix |-> 0, last_VTG_fix |-> 0, last_XTE_fix |-> 0,
    new_GGA_data |-> fill.flag, new_VTG_data |-> fill.flag,
    new_XTE_data |-> fill.flag,
    term |-> [i \in 0..(TermSize - 1) |-> IF i = 0 THEN 0 ELSE fill.byte],
    term_number |-> 0, term_offset |-> 0, parity |-> 0, checksum |-> fill.byte,
    sum |-> 0, is_checksum_term |-> FALSE, sentence_type |-> "OTHER" ]

\* The members declared right before term (FarmGPS.h:73-75) are what an index
\* below 0 addresses when the object is laid out in declaration order:
\* term[-1] is new_XTE_data, term[-2] new_VTG_data, term[-3] new_GGA_data.
\* Such an access is undefined; its outcome is either that (alias), or the
\* bytes mem[1..3] of some other storage, a write to which is not seen again.
OobVals == {0, DLE}

OobOutcomes ==
  { [alias |-> TRUE, mem |-> <<0, 0, 0>>] } \cup
  { [alias |-> FALSE, mem |-> <<a, b, c>>] : a \in OobVals, b \in OobVals, c \in OobVals }

NoOob == [alias |-> TRUE, mem |-> <<0, 0, 0>>]

BoolByte(b) == IF b THEN 1 ELSE 0

\* term[i] read
ReadTerm(st, i, oob) ==
  IF i \in 0..(TermSize - 1) THEN st.term[i]
  ELSE IF i >= TermSize THEN 0
  ELSE IF ~oob.alias THEN oob.mem[-i]
  ELSE IF i = -1 THEN BoolByte(st.new_XTE_data)
  ELSE IF i = -2 THEN BoolByte(st.new_VTG_data)
  ELSE BoolByte(st.new_GGA_data)

\* term[i] = '\0'
WriteNul(st, i, oob) ==
  IF i \in 0..(TermSize - 1) THEN [st EXCEPT !.term[i] = 0]
  ELSE IF i >= TermSize \/ ~oob.alias THEN st
  ELSE IF i = -1 THEN [st EXCEPT !.new_XTE_data = FALSE]
  ELSE IF i = -2 THEN [st EXCEPT !.new_VTG_data = FALSE]
  ELSE [st EXCEPT !.new_GGA_data = FALSE]

(***************************************************************************)
(* parse_term (FarmGPS.cpp:106-245).                                       *)
(***************************************************************************)
\* lines 120-142: the shadow fields of the sentence type become the
\* published ones
Commit(st, now) ==
  CASE st.sentence_type = "GGA" ->
         [st EXCEPT !.altitude = st.new_altitude, !.time = st.new_time,
                    !.latitude = st.new_latitude, !.longitude = st.new_longitude,
                    !.quality = st.new_quality, !.last_GGA_fix = now,
                    !.new_GGA_data = TRUE]
    [] st.sentence_type = "VTG" ->
         [st EXCEPT !.course = st.new_course, !.speed = st.new_speed,
                    !.last_VTG_fix = now, !.new_VTG_data = TRUE]
    [] st.sentence_type \in {"XTE", "XTE2"} ->
         [st EXCEPT !.xte = st.new_xte, !.last_XTE_fix = now,
                    !.new_XTE_data = TRUE]
    [] OTHER -> st

\* lines 107-115: the checksum a checksum term stands for
TermChecksum(st, signed) ==
  IF st.sentence_type = "XTE2" THEN st.parity
  ELSE ToByte(16 * hex_to_int(CharVal(signed, st.term[0]))
              + hex_to_int(CharVal(signed, st.term[1])))

\* lines 153-181: the first term determines the sentence type
Classify(s) ==
  IF strcmp(s, GPGGA_TERM) THEN "GGA"
  ELSE IF strcmp(s, GPVTG_TERM) THEN "VTG"
  ELSE IF strcmp(s, GPXTE_TERM) THEN "XTE"
  ELSE IF strcmp(s, ROXTE_TERM) THEN "XTE2"
  ELSE "OTHER"

\* lines 196-198 and 204-206, letter c being term[0]: the hemisphere letter
\* that negates, with the negation left out
WithoutHemisphere(v, letter, c) == v

\* lines 196-198 and 204-206, letter c being term[0]: 'S' negates the
\* latitude, 'W' the longitude
Hemisphere(v, letter, c) == IF c = letter THEN -v ELSE v

\* lines 184-243: a non-empty payload term, the string s, goes to the shadow
\* field its sentence type and number select
ExtractFrom(st, s) ==
  CASE st.sentence_type = "GGA" /\ st.term_number = 1 ->
         [st EXCEPT !.new_time = parse_decimal(s)]
    [] st.sentence_type = "GGA" /\ st.term_number = 2 ->
         [st EXCEPT !.new_latitude = parse_degrees(s)]
    [] st.sentence_type = "GGA" /\ st.term_number = 3 ->
         [st EXCEPT !.new_latitude = Hemisphere(st.new_latitude, 83, st.term[0])]
    [] st.sentence_type = "GGA" /\ st.term_number = 4 ->
         [st EXCEPT !.new_longitude = parse_degrees(s)]
    [] st.sentence_type = "GGA" /\ st.term_number = 5 ->
         [st EXCEPT !.new_longitude = Hemisphere(st.new_longitude, 87, st.term[0])]
    [] st.sentence_type = "GGA" /\ st.term_number = 6 ->
         [st EXCEPT !.new_quality = parse_integer(s)]
    [] st.sentence_type = "GGA" /\ st.term_number = 9 ->
         [st EXCEPT !.new_altitude = parse_decimal(s)]
    [] st.sentence_type = "VTG" /\ st.term_number = 1 ->
         [st EXCEPT !.new_course = parse_decimal(s)]
    [] st.sentence_type = "VTG" /\ st.term_number = 5 ->
         [st EXCEPT !.new_speed = parse_decimal(s)]
    [] st.sentence_type = "XTE" /\ st.term_number = 3 ->
         [st EXCEPT !.new_xte = parse_decimal(s)]
    [] st.sentence_type = "XTE2" /\ st.term_number = 1 ->
         [st EXCEPT !.new_xte = parse_decimal(s)]
    [] OTHER -> st

\* lines 184-243, with the term counted from one instead of zero
ExtractOffByOne(st) ==
  [ExtractFrom([st EXCEPT !.term_number = st.term_number + 1], CStr(st.term))
     EXCEPT !.term_number = st.term_number]

\* lines 184-243 for the string in term
Extract(st) == ExtractFrom(st, CStr(st.term))

\* lines 116-150: the checksum term stands for cs
CheckAndCommit(st, cs, now) ==
  IF cs = st.parity
  THEN [st |-> Commit([st EXCEPT !.checksum = cs], now), ret |-> TRUE]
  ELSE [st |-> [st EXCEPT !.checksum = cs], ret |-> FALSE]

\* the whole of parse_term: the state after it and its return value
parse_term(st, signed, now) ==
  IF st.is_checksum_term
  THEN CheckAndCommit(st, TermChecksum(st, signed), now)
  ELSE IF st.term_number = 0
  THEN [st |-> [st EXCEPT !.sentence_type = Classify(CStr(st.term))], ret |-> FALSE]
  ELSE IF st.term[0] # 0
  THEN [st |-> Extract(st), ret |-> FALSE]
  ELSE [st |-> st, ret |-> FALSE]

(***************************************************************************)
(* decode (FarmGPS.cpp:252-331).  A result is the state after the call,    *)
(* the return value, and two observations of the call: whether the Trimble *)
(* sum check of line 308 succeeded in it, and whether it indexed term      *)
(* outside 0..TermSize-1.                                                  *)
(***************************************************************************)
Result(st, ret, accepted, outside) ==
  [st |-> st, ret |-> ret, accepted |-> accepted, outside |-> outside]

\* line 323, letting the last cell of term be written
HasRoomForLast(offset) == offset < TermSize

\* line 323: is there room for one more character
HasRoom(offset) == offset < TermSize - 1

\* lines 323-324: the character is stored if there is room
Store(st, c) ==
  IF HasRoom(st.term_offset)
  THEN [st EXCEPT !.term[st.term_offset] = c, !.term_offset = st.term_offset + 1]
  ELSE st

\* lines 325-327: parity outside a checksum term, and sum
Accumulate(st, c) ==
  [st EXCEPT !.parity = IF st.is_checksum_term THEN st.parity ELSE Xor8(st.parity, c),
             !.sum = ToInt(st.sum + c)]

\* lines 322-328, with a character that finds no room left out of parity
\* and sum as well
OrdinaryIfRoom(st, c) ==
  IF HasRoom(st.term_offset) THEN Accumulate(Store(st, c), c) ELSE st

\* lines 322-328: an ordinary character
Ordinary(st, c) == Accumulate(Store(st, c), c)

\* lines 261-264: the Trimble id
TrimbleId(st) == [st EXCEPT !.term_number = 0, !.term_offset = 0, !.sum = 0]

\* lines 266-274: '$' or '@' begins a sentence
SentenceStart(st, c) ==
  [st EXCEPT !.term_number = 0, !.term_offset = 0, !.parity = 0,
             !.sum = ToInt(st.sum + c), !.sentence_type = "OTHER",
             !.is_checksum_term = FALSE]

\* lines 276-280: NUL, 20 and blank only count in sum
Bitbucket(st, c) == [st EXCEPT !.sum = ToInt(st.sum + c)]

\* line 283, with the comma left out of the parity
TerminatorParityWithoutComma(st, c) == st.parity

\* line 283: only the comma among the terminators is part of the parity
TerminatorParity(st, c) == IF c = 44 THEN Xor8(st.parity, c) ELSE st.parity

\* lines 283-289: parity, sum and the NUL that ends the term
EndTerm(st, c) ==
  WriteNul([st EXCEPT !.parity = TerminatorParity(st, c), !.sum = ToInt(st.sum + c)],
           st.term_offset, NoOob)

\* lines 293-295, after parse_term gave p
NextTerm(p, c, outside) ==
  Result([p.st EXCEPT !.term_number = ToByte(p.st.term_number + 1),
                      !.term_offset = 0,
                      !.is_checksum_term = (c = 42)],
         p.ret, FALSE, outside)

\* lines 282-296: ',' ':' '*' CR LF end a term
Terminator(st, c, signed, now) ==
  NextTerm(parse_term(EndTerm(st, c), signed, now), c, st.term_offset > TermSize - 1)

\* line 302, without the test for a checksum term
FrameEndsInChecksumTerm(st, signed, oob) ==
  CharVal(signed, ReadTerm(st, st.term_offset - 1, oob)) = DLE

\* line 302: is byte 3 the end of a Trimble frame
FrameEnds(st, signed, oob) ==
  CharVal(signed, ReadTerm(st, st.term_offset - 1, oob)) = DLE /\ ~st.is_checksum_term

\* lines 303-305: sum without the three bytes before byte 3
TrailerSum(st, oob) ==
  ToInt(ToInt(ToInt(st.sum - ReadTerm(st, st.term_offset - 1, oob))
              - ReadTerm(st, st.term_offset - 2, oob))
        - ReadTerm(st, st.term_offset - 3, oob))

\* line 308, st.sum being the sum of lines 303-305
SumChecks(st, oob) ==
  ToInt(ToInt(st.sum - ReadTerm(st, st.term_offset - 2, oob))
        - ToInt(256 * ReadTerm(st, st.term_offset - 3, oob))) = 0

\* lines 311-312, after the parse_term of line 310 gave p
AsChecksumTerm(p, signed, now) ==
  parse_term([p.st EXCEPT !.is_checksum_term = TRUE], signed, now)

\* lines 309-312
AcceptFrame(st, signed, now, oob) ==
  AsChecksumTerm(parse_term(WriteNul(st, st.term_offset - 3, oob), signed, now),
                 signed, now)

\* lines 314-315, after the frame gave p
FrameDone(p, accepted, outside) ==
  Result([p.st EXCEPT !.term_number = ToByte(p.st.term_number + 1), !.term_offset = 0],
         p.ret, accepted, outside)

\* lines 303-316, st.sum being the sum of lines 303-305
Frame(st, signed, now, oob, outside) ==
  IF SumChecks(st, oob)
  THEN FrameDone(AcceptFrame(st, signed, now, oob), TRUE, outside)
  ELSE FrameDone([st |-> st, ret |-> FALSE], FALSE, outside)

\* lines 301-328: byte 3 ends a Trimble frame after byte 16, or is ordinary
TrimbleEnd(st, c, signed, now, oob) ==
  IF FrameEnds(st, signed, oob)
  THEN Frame([st EXCEPT !.sum = TrailerSum(st, oob)], signed, now, oob,
             st.term_offset < 3)
  ELSE Result(Ordinary(st, c), FALSE, FALSE, st.term_offset < 1)

\* the switch of decode on the character c, given as the byte 0..255 it holds
decode(st, c, signed, now, oob) ==
  LET v == CharVal(signed, c)
  IN IF v = TRIMBLE_ID THEN Result(TrimbleId(st), FALSE, FALSE, FALSE)
     ELSE IF v \in {36, 64} THEN Result(SentenceStart(st, c), FALSE, FALSE, FALSE)
     ELSE IF v \in {20, 0, 32} THEN Result(Bitbucket(st, c), FALSE, FALSE, FALSE)
     ELSE IF v \in {44, 58, 42, 13, 10} THEN Terminator(st, c, signed, now)
     ELSE IF v = ETX THEN TrimbleEnd(st, c, signed, now, oob)
     ELSE Result(Ordinary(st, c), FALSE, FALSE, FALSE)

(***************************************************************************)
(* The byte source.  It sends segments, one after the other, each taken    *)
(* from Menu: an ASCII sentence '$' payload '*' checksum CR whose checksum *)
(* token is the XOR of the payload bytes in hex ("good") or that token     *)
(* with one character replaced ("bad"), a sentence cut short before its    *)
(* '*' ("cut"), or bytes that are no ASCII sentence ("raw").               *)
(***************************************************************************)
\* how many segments the source sends
MaxSeg == 2
\* the length of the over-long token the source can send
MaxToken == 21

\* bit k of the XOR of all bytes of p: the parity of the bytes that have it set
XorBit(p, k) == Cardinality({i \in DOMAIN p : Bit(p[i], k) = 1}) % 2

\* the XOR of all bytes of p
XorAll(p) ==
  XorBit(p, 0) + 2 * XorBit(p, 1) + 4 * XorBit(p, 2) + 8 * XorBit(p, 3)
  + 16 * XorBit(p, 4) + 32 * XorBit(p, 5) + 64 * XorBit(p, 6) + 128 * XorBit(p, 7)

HexDigit(d) == IF d < 10 THEN 48 + d ELSE 55 + d

\* the two hex digits of the XOR of all bytes of p
Checksum(p) == LET x == XorAll(p) IN <<HexDigit(x \div 16), HexDigit(x % 16)>>

Sentence(p, cs) == <<36>> \o p \o <<42>> \o cs \o <<13>>

Good(p) == [kind |-> "good", payload |-> p, bytes |-> Sentence(p, Checksum(p))]

\* the same, with the line feed that follows the carriage return
GoodLF(p) ==
  [kind |-> "good", payload |-> p, bytes |-> Sentence(p, Checksum(p)) \o <<10>>]

\* character i of the checksum token replaced by r
Bad(p, i, r) ==
  [kind |-> "bad", payload |-> p,
   bytes |-> Sentence(p, [Checksum(p) EXCEPT ![i] = r])]

\* a sentence with the checksum token cs
Sent(p, cs) == [kind |-> "sent", payload |-> p, bytes |-> Sentence(p, cs)]

Cut(p) == [kind |-> "cut", payload |-> p, bytes |-> <<36>> \o p]

Raw(b) == [kind |-> "raw", payload |-> <<>>, bytes |-> b]

\* "GPGGA,123519,4807.038,N,01131.000,E,1,08,0.9,545.4,M,46.9,M,,"
PayExample ==
  <<71, 80, 71, 71, 65, 44, 49, 50, 51, 53, 49, 57, 44, 52, 56, 48, 55, 46, 48, 51, 56,
    44, 78, 44, 48, 49, 49, 51, 49, 46, 48, 48, 48, 44, 69, 44, 49, 44, 48, 56, 44, 48,
    46, 57, 44, 53, 52, 53, 46, 52, 44, 77, 44, 52, 54, 46, 57, 44, 77, 44, 44>>
\* "GPGGA,7,4807.038,S,01131.5,W,2,,,54.4"
PayGGA == <<71, 80, 71, 71, 65, 44, 55, 44, 52, 56, 48, 55, 46, 48, 51, 56, 44, 83, 44,
            48, 49, 49, 51, 49, 46, 53, 44, 87, 44, 50, 44, 44, 44, 53, 52, 46, 52>>
\* the same with the hemisphere letter of term 3 'N'
PayGGANorth == [PayGGA EXCEPT ![18] = 78]
\* "GPGGA,7,,S": no latitude
PayGGANoLat == <<71, 80, 71, 71, 65, 44, 55, 44, 44, 83>>
\* the same with the hemisphere letter of term 3 'N'
PayGGANoLatNorth == [PayGGANoLat EXCEPT ![10] = 78]
\* "GPGGA,,,,,,1"
PayGGAEmpty == <<71, 80, 71, 71, 65, 44, 44, 44, 44, 44, 44, 49>>
\* "GPGGA,9,1200.0,N,300.0,E,1"
PayGGA2 == <<71, 80, 71, 71, 65, 44, 57, 44, 49, 50, 48, 48, 46, 48, 44, 78, 44,
             51, 48, 48, 46, 48, 44, 69, 44, 49>>
\* "GPGGA,3,600.0,N"
PayGGA3 == <<71, 80, 71, 71, 65, 44, 51, 44, 54, 48, 48, 46, 48, 44, 78>>
\* "GPGGA,1"
PayGGAShort == <<71, 80, 71, 71, 65, 44, 49>>
\* "GPVTG,5.5,T,,M,3.2"
PayVTG == <<71, 80, 86, 84, 71, 44, 53, 46, 53, 44, 84, 44, 44, 77, 44, 51, 46, 50>>
\* "GPVTG,8.1,T,,M,6"
PayVTG2 == <<71, 80, 86, 84, 71, 44, 56, 46, 49, 44, 84, 44, 44, 77, 44, 54>>
\* "GPVTG,1 2"
PayVTGBlank == <<71, 80, 86, 84, 71, 44, 49, 32, 50>>
\* "GPVTG,5"
PayVTGShort == <<71, 80, 86, 84, 71, 44, 53>>
\* "GPXTE,A,A,2.5"
PayXTE == <<71, 80, 88, 84, 69, 44, 65, 44, 65, 44, 50, 46, 53>>
\* "GPXTE,,,2"
PayXTEShort == <<71, 80, 88, 84, 69, 44, 44, 44, 50>>
\* "ROXTE,4.5"
PayROXTE == <<82, 79, 88, 84, 69, 44, 52, 46, 53>>
\* "GPRMC,9"
PayRMC == <<71, 80, 82, 77, 67, 44, 57>>

\* k commas
Commas(k) == [i \in 1..k |-> 44]

\* "GPGGA", then 256 commas, which bring the one-byte term_number back to 0,
\* then "GPVTG,5"
PayLongGGA == GPGGA_TERM \o Commas(256) \o PayVTGShort
\* "GPRMC", 256 commas, "GPGGA,1"
PayLongRMC == <<71, 80, 82, 77, 67>> \o Commas(256) \o PayGGAShort

\* a token of MaxToken letters 'A' and the comma that ends it
LongToken == [i \in 1..(MaxToken + 1) |-> IF i <= MaxToken THEN 65 ELSE 44]

\* a Trimble frame: id, '@', "ROXTE,4", the sum 562 of the bytes after the id
\* as two bytes (2, 50), 16, 3
TrimbleFrame == <<191, 64, 82, 79, 88, 84, 69, 44, 52, 2, 50, 16, 3>>

\* five '@', '?', 16, 3: byte 3 arrives with two characters in term
ShortFrame == <<64, 64, 64, 64, 64, 63, 16, 3>>

\* the sum of all bytes of p
RECURSIVE SumFrom(_, _)
SumFrom(p, i) == IF i > Len(p) THEN 0 ELSE p[i] + SumFrom(p, i + 1)

SumAll(p) == SumFrom(p, 1)

\* a Trimble frame: the id, the payload p, the trailer hi, lo, 16, and 3
TFrame(p, hi, lo) ==
  [kind |-> "frame", payload |-> p,
   bytes |-> <<TRIMBLE_ID>> \o p \o <<hi, lo, DLE, ETX>>]

\* the frame whose trailer states the sum of the payload bytes
GoodFrame(p) == TFrame(p, SumAll(p) \div 256, SumAll(p) % 256)

\* the frame whose trailer states one more than that
BadFrame(p) == TFrame(p, SumAll(p) \div 256, (SumAll(p) + 1) % 256)

\* bytes that contain the id, with no '*' and no byte 3 after it; the
\* payload is what precedes the id
Resync(p, after) ==
  [kind |-> "resync", payload |-> p, bytes |-> p \o <<TRIMBLE_ID>> \o after]

\* "@ROXTE,4"
FrameXTE == <<64, 82, 79, 88, 84, 69, 44, 52>>
\* "@A": its sum is below 256
FrameSmall == <<64, 65>>
\* "@ROXTE", 16, 3, ",4": bytes 16 and 3 within the payload
FrameEscape == <<64, 82, 79, 88, 84, 69, 16, 3, 44, 52>>
\* '@', 'A', 3, 'B', ',': byte 3 after a letter
AfterLetter == <<64, 65, 3, 66, 44>>
\* "$A*", 16, 3, CR: byte 3 after byte 16 within a checksum token
InChecksum == <<36, 65, 42, 16, 3, 13>>
\* "$A*" and MaxToken letters 'B': a checksum token longer than term
LongChecksum == <<36, 65, 42>> \o [i \in 1..MaxToken |-> 66]
\* MaxToken letters 'A' and byte 3: byte 3 arrives with term full
LongThenEnd == [i \in 1..(MaxToken + 1) |-> IF i <= MaxToken THEN 65 ELSE 3]
\* "GPXTE,,,2*40": the valid sentence "$GPXTE,,,2*40" and a second '*'
PayTwoStars == PayXTEShort \o <<42>> \o Checksum(PayXTEShort)
\* "$GPXTE,A,A,2.5*" before the id, "5B" CR after it
BeforeId == <<36>> \o PayXTE \o <<42>>
AfterId == Checksum(PayXTE) \o <<13>>

Menu ==
  << Good(PayGGA), Good(PayGGAEmpty), Good(PayVTG), Good(PayXTE),
     Good(PayROXTE), Good(PayRMC), Good(PayVTGBlank), GoodLF(PayExample),
     Bad(PayVTG2, 2, 55), Bad(PayGGA2, 2, 52), Bad(PayROXTE, 2, 56),
     Bad(PayXTE, 1, 85),
     Cut(PayGGA3),
     Raw(LongToken), Raw(TrimbleFrame), Raw(ShortFrame),
     Raw(<<TRIMBLE_ID>> \o ShortFrame), Raw(<<10>>),
     Good(PayXTEShort), Good(PayVTGShort), Good(PayGGAShort),
     Good(PayLongGGA), Good(PayLongRMC),
     Good(PayGGANorth), Good(PayGGANoLat), Good(PayGGANoLatNorth),
     GoodFrame(FrameXTE), BadFrame(FrameXTE), GoodFrame(FrameSmall),
     GoodFrame(FrameEscape), Raw(AfterLetter), Raw(InChecksum), Raw(<<ETX>>),
     Raw(LongChecksum), Raw(LongThenEnd),
     Raw(GoodFrame(FrameXTE).bytes \o <<13>>),
     Sent(PayTwoStars, Checksum(PayXTEShort)),
     Resync(BeforeId, AfterId) >>

\* the segments of the three specifications: sentences and frames; the short
\* ones a polling consumer is shown; the sentences of more than 255 terms
SentenceSegs == 1..18
PollSegs == {17, 19, 20, 21}
LongSegs == {22, 23}
\* GGA sentences with 'S' (1, 25) and the same with 'N' (24, 26), and
\* sentences that leave shadow values behind
HemisphereSegs == {1, 24, 25, 26, 10, 13}
\* Trimble frames (27..30), byte 3 elsewhere (16, 17, 31..33, 35), tokens
\* longer than term (14, 34, 35), a frame and a CR (36), a sentence with two
\* '*' (37), the id within a checksum token (38)
FrameSegs == {14, 16, 17} \cup (27..38)

(***************************************************************************)
(* The state machine.                                                      *)
(***************************************************************************)
VARIABLES
  gps,             \* the FarmGPS object
  char_is_signed,  \* the build: is plain char signed (avr-gcc) or not (arm)
  millis,          \* the clock millis() reads
  op,              \* the member function called last
  ret,             \* what it returned
  byte,            \* the argument of the last decode
  accepted,        \* did the last decode pass the Trimble sum check
  outside,         \* did the last decode index term outside the buffer
  seg,             \* the segment being sent, an index of Menu (0: none yet)
  pos,             \* how many of its bytes are decoded
  nseg,            \* how many segments were begun
  snap,            \* the object as it was before the segment's first byte,
                   \* with the flags as the accessors have left them since
  trues,           \* how many decode calls of this segment returned true
  last_true,       \* the position in the segment of the last of them
  prior,           \* the segment sent before this one, and its count of trues
  pend             \* per accessor: "yes" after a commit of its sentence type,
                   \* "no" after a call of it, "none" before both

vars == <<gps, char_is_signed, millis, op, ret, byte, accepted, outside,
          seg, pos, nseg, snap, trues, last_true, prior, pend>>

SegBytes(i) == IF i = 0 THEN <<>> ELSE Menu[i].bytes

Init ==
  /\ \E fill \in UninitFills : gps = Constructed(fill)
  /\ char_is_signed \in BOOLEAN
  /\ millis = 0
  /\ op = "FarmGPS"
  /\ ret = FALSE
  /\ byte = 0
  /\ accepted = FALSE
  /\ outside = FALSE
  /\ seg = 0
  /\ pos = 0
  /\ nseg = 0
  /\ snap = gps
  /\ trues = 0
  /\ last_true = 0
  /\ prior = [seg |-> 0, trues |-> 0]
  /\ pend = [GGA |-> "none", VTG |-> "none", XTE |-> "none"]

\* the accessor that reports commits of sentence type t
AccessorOf(t) == IF t \in {"XTE", "XTE2"} THEN "XTE" ELSE t

\* bool decode(char c), for byte i of segment s
DecodeByte(s, i) ==
  LET c == SegBytes(s)[i]
  IN \E oob \in (IF c = ETX /\ gps.term_offset < 3 THEN OobOutcomes ELSE {NoOob}) :
       LET r == decode(gps, c, char_is_signed, millis + 1, oob)
       IN /\ gps' = r.st
          /\ millis' = millis + 1
          /\ op' = "decode"
          /\ ret' = r.ret
          /\ byte' = c
          /\ accepted' = r.accepted
          /\ outside' = r.outside
          /\ seg' = s
          /\ pos' = i
          /\ nseg' = IF i = 1 THEN nseg + 1 ELSE nseg
          /\ snap' = IF i = 1 THEN gps ELSE snap
          /\ trues' = (IF i = 1 THEN 0 ELSE trues) + BoolByte(r.ret)
          /\ last_true' = IF r.ret THEN i ELSE IF i = 1 THEN 0 ELSE last_true
          /\ prior' = IF i = 1 THEN [seg |-> seg, trues |-> trues] ELSE prior
          /\ pend' = IF r.ret /\ r.st.sentence_type # "OTHER"
                     THEN [pend EXCEPT ![AccessorOf(r.st.sentence_type)] = "yes"]
                     ELSE pend
          /\ UNCHANGED char_is_signed

\* decode of the next byte of a source that sends the segments S
Decode(S) ==
  IF pos < Len(SegBytes(seg))
  THEN DecodeByte(seg, pos + 1)
  ELSE /\ nseg < MaxSeg
       /\ \E s \in S : DecodeByte(s, 1)

DecodePoll == Decode(PollSegs)
DecodeSentences == Decode(SentenceSegs)
DecodeLong == Decode(LongSegs)
DecodeHemisphere == Decode(HemisphereSegs)
DecodeFrames == Decode(FrameSegs)

\* FarmGPS.h:246-264
got_new_GGA_data ==
  /\ ret' = gps.new_GGA_data
  /\ gps' = [gps EXCEPT !.new_GGA_data = FALSE]
  /\ snap' = [snap EXCEPT !.new_GGA_data = FALSE]
  /\ pend' = [pend EXCEPT !.GGA = "no"]
  /\ op' = "got_new_GGA_data"
  /\ UNCHANGED <<char_is_signed, millis, byte, accepted, outside, seg, pos, nseg,
                 trues, last_true, prior>>

got_new_VTG_data ==
  /\ ret' = gps.new_VTG_data
  /\ gps' = [gps EXCEPT !.new_VTG_data = FALSE]
  /\ snap' = [snap EXCEPT !.new_VTG_data = FALSE]
  /\ pend' = [pend EXCEPT !.VTG = "no"]
  /\ op' = "got_new_VTG_data"
  /\ UNCHANGED <<char_is_signed, millis, byte, accepted, outside, seg, pos, nseg,
                 trues, last_true, prior>>

got_new_XTE_data ==
  /\ ret' = gps.new_XTE_data
  /\ gps' = [gps EXCEPT !.new_XTE_data = FALSE]
  /\ snap' = [snap EXCEPT !.new_XTE_data = FALSE]
  /\ pend' = [pend EXCEPT !.XTE = "no"]
  /\ op' = "got_new_XTE_data"
  /\ UNCHANGED <<char_is_signed, millis, byte, accepted, outside, seg, pos, nseg,
                 trues, last_true, prior>>

\* a consumer polling the accessors between decode calls
Next == DecodePoll \/ got_new_GGA_data \/ got_new_VTG_data \/ got_new_XTE_data

Spec == Init /\ [][Next]_vars

\* decode alone, fed sentences and frames
NextSentences == DecodeSentences

SpecSentences == Init /\ [][NextSentences]_vars

\* decode alone, fed sentences of more than 255 terms
NextLong == DecodeLong

SpecLong == Init /\ [][NextLong]_vars

\* decode alone, fed GGA sentences of both hemispheres
NextHemisphere == DecodeHemisphere

SpecHemisphere == Init /\ [][NextHemisphere]_vars

\* decode alone, fed Trimble frames and what resembles them
NextFrames == DecodeFrames

SpecFrames == Init /\ [][NextFrames]_vars

(***************************************************************************)
(* What the claims speak of.                                               *)
(***************************************************************************)
SegKind == IF seg = 0 THEN "none" ELSE Menu[seg].kind
SegPayload == IF seg = 0 THEN <<>> ELSE Menu[seg].payload

\* a sentence segment: '$', payload, '*', two characters, CR
IsSentence == SegKind \in {"good", "bad", "sent"}

\* the position of the CR that ends the checksum token of a sentence segment
CRPos == Len(SegPayload) + 5

Terminators == {44, 58, 42, 13, 10}

\* term 0 of payload p: what precedes its first terminator
Term0(p) ==
  IF \E i \in DOMAIN p : p[i] \in Terminators
  THEN SubSeq(p, 1, (CHOOSE i \in DOMAIN p :
                       /\ p[i] \in Terminators
                       /\ \A j \in 1..(i - 1) : p[j] \notin Terminators) - 1)
  ELSE p

\* the sentence type the prefix of the segment's payload names
SegType == Classify(Term0(SegPayload))

\* the bytes decode treats as ordinary characters or as the comma: 7-bit
\* bytes other than NUL, 3, 20, blank, '$', '@', '*', ':', CR and LF
Plain(p) == \A i \in DOMAIN p : p[i] \in (1..127) \ {3, 20, 32, 36, 64, 42, 58, 13, 10}

FieldsGGA(st) == <<st.time, st.latitude, st.longitude, st.altitude, st.quality>>
FieldsVTG(st) == <<st.course, st.speed>>
FieldsXTE(st) == <<st.xte>>

ShadowsGGA(st) ==
  <<st.new_time, st.new_latitude, st.new_longitude, st.new_altitude, st.new_quality>>
ShadowsVTG(st) == <<st.new_course, st.new_speed>>
ShadowsXTE(st) == <<st.new_xte>>

\* a group: the published fields of a sentence type, its last-fix time and flag
GroupGGA(st) == <<FieldsGGA(st), st.last_GGA_fix, st.new_GGA_data>>
GroupVTG(st) == <<FieldsVTG(st), st.last_VTG_fix, st.new_VTG_data>>
GroupXTE(st) == <<FieldsXTE(st), st.last_XTE_fix, st.new_XTE_data>>

Published(st) == <<GroupGGA(st), GroupVTG(st), GroupXTE(st)>>
Shadows(st) == <<ShadowsGGA(st), ShadowsVTG(st), ShadowsXTE(st)>>

\* the published fields of sentence type t
FieldsOf(t, st) ==
  IF t = "GGA" THEN FieldsGGA(st) ELSE IF t = "VTG" THEN FieldsVTG(st) ELSE FieldsXTE(st)

(***************************************************************************)
(* C1.                                                                     *)
(***************************************************************************)
\* at the CR of a sentence segment decode has just returned true, for the
\* first time in the segment; before the CR it has not returned true
TrueExactlyAtCR ==
  /\ pos = CRPos => ret /\ trues = 1 /\ last_true = CRPos
  /\ pos < CRPos => trues = 0

\* C1 as claimed: for every sentence '$', payload, '*', the two hex digits of
\* the XOR of all payload bytes, CR, fed from any reachable state, decode
\* returns true on the CR and false on every earlier byte of the sentence.
C1_AnyPayload ==
  (SegKind = "good" /\ pos >= 1) => TrueExactlyAtCR

\* C1 as amended: the same, for payloads made of the bytes decode takes as
\* ordinary characters or commas (7-bit bytes other than NUL, 3, 20, blank,
\* '$', '@', '*', ':', CR, LF); those are the bytes it XORs into parity.
C1_PlainPayload ==
  (SegKind = "good" /\ Plain(SegPayload) /\ pos >= 1) => TrueExactlyAtCR

\* a plain sentence is accepted at its CR by a decoder that has decoded
\* another segment before
C1_Witness ==
  /\ SegKind = "good" /\ Plain(SegPayload) /\ nseg = 2
  /\ pos = CRPos /\ ret /\ trues = 1

(***************************************************************************)
(* C2.                                                                     *)
(***************************************************************************)
\* C2: through a sentence of a recognized type whose checksum token differs
\* from the hex XOR of its payload, no decode call returns true, and the
\* published fields, timestamps and flags stay as they were before it.
C2_CorruptedRejected ==
  (SegKind = "bad" /\ SegType # "OTHER" /\ pos >= 1) =>
     /\ trues = 0
     /\ Published(gps) = Published(snap)

(***************************************************************************)
(* C3.                                                                     *)
(***************************************************************************)
\* one decode call: what is published changes only if it returns true, and
\* if it returns true for a recognized type the group of that type is the
\* shadow set, the time of the call and a raised flag
C3_Step ==
  op' = "decode" =>
    /\ Published(gps') # Published(gps) => ret'
    /\ (ret' /\ gps'.sentence_type = "GGA") =>
          GroupGGA(gps') = <<ShadowsGGA(gps), millis', TRUE>>
    /\ (ret' /\ gps'.sentence_type = "VTG") =>
          GroupVTG(gps') = <<ShadowsVTG(gps), millis', TRUE>>
    /\ (ret' /\ gps'.sentence_type \in {"XTE", "XTE2"}) =>
          GroupXTE(gps') = <<ShadowsXTE(gps), millis', TRUE>>

\* C3: a published field, timestamp or flag changes only within a decode call
\* that returns true, and such a call commits the whole group of its type:
\* every field from its shadow, the timestamp and the flag.
C3_CommitOnlyOnTrue == [][C3_Step]_vars

(***************************************************************************)
(* C4.                                                                     *)
(***************************************************************************)
\* the object after decode of bytes[i..], one byte after the other
RECURSIVE Feed(_, _, _, _)
Feed(st, bytes, i, signed) ==
  IF i > Len(bytes) THEN st
  ELSE LET next == decode(st, bytes[i], signed, 0, NoOob).st
       IN IF next.term_offset < TermSize THEN Feed(next, bytes, i + 1, signed)
          ELSE next

\* a second decoder: constructed over zeroed memory, it has rejected the
\* corrupted sentence Menu[9], and then decodes segment i
Second(i, signed) ==
  Feed(Feed(Constructed([flag |-> FALSE, num |-> 0, byte |-> 0]),
            SegBytes(9), 1, signed),
       SegBytes(i), 1, signed)

\* C4: the values a valid sentence commits depend on its bytes alone: a
\* decoder that has only rejected or abandoned a sentence before publishes,
\* for the same valid sentence, what any other such decoder publishes.
C4_SentenceAlone ==
  ( /\ nseg = 2 /\ Menu[prior.seg].kind \in {"bad", "cut"} /\ prior.trues = 0
    /\ SegKind = "good" /\ SegType # "OTHER" /\ pos = CRPos /\ ret )
  => FieldsOf(SegType, gps) = FieldsOf(SegType, Second(seg, char_is_signed))

(***************************************************************************)
(* C5.                                                                     *)
(***************************************************************************)
\* C5: the write index into the term buffer never exceeds 19.
C5_TermOffsetBounded == gps.term_offset <= TermSize - 1

\* the buffer is full and one more ordinary byte has arrived
C5_Witness ==
  /\ seg = 14 /\ pos = TermSize + 1 /\ byte = 65
  /\ gps.term_offset = TermSize - 1

(***************************************************************************)
(* C6.                                                                     *)
(***************************************************************************)
\* the flag of a type against what the consumer is owed: raised from a commit
\* of the type until the next call of its accessor, lowered from that call
\* until the next commit
FlagAsOwed(t, flag) == pend[t] # "none" => (flag <=> pend[t] = "yes")

\* C6: after a commit of a type the first call of its accessor returns true
\* and every further call returns false until the type is committed again.
C6_ConsumeOnce ==
  /\ FlagAsOwed("GGA", gps.new_GGA_data)
  /\ FlagAsOwed("VTG", gps.new_VTG_data)
  /\ FlagAsOwed("XTE", gps.new_XTE_data)

(***************************************************************************)
(* C7.                                                                     *)
(***************************************************************************)
\* C7: a sentence of one type leaves the groups of the other two types as
\* they were: GGA, VTG and XTE are committed independently.
C7_TypesIndependent ==
  (IsSentence /\ pos >= 1) =>
     /\ SegType # "GGA" => GroupGGA(gps) = GroupGGA(snap)
     /\ SegType # "VTG" => GroupVTG(gps) = GroupVTG(snap)
     /\ SegType \notin {"XTE", "XTE2"} => GroupXTE(gps) = GroupXTE(snap)

(***************************************************************************)
(* C8.                                                                     *)
(***************************************************************************)
\* C8: decode returns true for a sentence of the binary cross-track type
\* only on byte 3, in the call whose frame sum check has passed.
C8_BinaryOnlyByFrame ==
  (op = "decode" /\ ret /\ gps.sentence_type = "XTE2") => (byte = ETX /\ accepted)

(***************************************************************************)
(* C9.                                                                     *)
(***************************************************************************)
\* C9: a sentence whose first term names no recognized type changes nothing
\* that is published and no shadow field.
C9_UnrecognizedInert ==
  (IsSentence /\ SegType = "OTHER" /\ pos >= 1) =>
     /\ Published(gps) = Published(snap)
     /\ Shadows(gps) = Shadows(snap)

NorthOf(i) == IF i = 1 THEN 24 ELSE 26

\* the object had the 'N' sentence been decoded instead of this segment
North == Feed(snap, SegBytes(NorthOf(seg)), 1, char_is_signed)

\* C11: of two valid GGA sentences that differ only in the hemisphere letter
\* of term 3 (and in the checksum), decoded from the same state, the 'S' one
\* publishes the negated latitude of the 'N' one and the same time,
\* longitude, altitude, quality, course, speed and xte.
C11_HemisphereFlip ==
  (seg \in {1, 25} /\ pos = CRPos) =>
     /\ ret
     /\ gps.latitude = -North.latitude
     /\ <<gps.time, gps.longitude, gps.altitude, gps.quality,
          gps.course, gps.speed, gps.xte>>
        = <<North.time, North.longitude, North.altitude, North.quality,
            North.course, North.speed, North.xte>>

\* the 'S' sentence is committed, with a latitude below zero, by a decoder
\* that has decoded another segment before
C11_Witness ==
  /\ seg = 1 /\ nseg = 2 /\ pos = CRPos /\ ret
  /\ gps.latitude = -48117 /\ North.latitude = 48117

(***************************************************************************)
(* C12.                                                                    *)
(***************************************************************************)
\* the decode call of this step handles byte b as an ordinary byte
HandledAsOrdinary(b) ==
  /\ gps'.term = IF gps.term_offset < TermSize - 1
                 THEN [gps.term EXCEPT ![gps.term_offset] = b] ELSE gps.term
  /\ gps'.term_offset = IF gps.term_offset < TermSize - 1
                        THEN gps.term_offset + 1 ELSE gps.term_offset
  /\ gps'.parity = IF gps.is_checksum_term THEN gps.parity ELSE Xor8(gps.parity, b)
  /\ gps'.sum = ToInt(gps.sum + b)
  /\ gps'.term_number = gps.term_number
  /\ ~ret'

TrailerStatesSum(i) ==
  256 * SegBytes(i)[Len(SegBytes(i)) - 3] + SegBytes(i)[Len(SegBytes(i)) - 2]
    = SumAll(Menu[i].payload)

\* C13: a frame of the id 191, a payload, and hi, lo, 16, 3, whose byte 3
\* arrives outside a checksum token, is accepted if and only if 256*hi + lo
\* is the sum of the payload bytes, whatever the payload.
C13_AcceptedIffSum ==
  [][( /\ op' = "decode" /\ Menu[seg'].kind = "frame"
       /\ pos' = Len(SegBytes(seg')) /\ ~gps.is_checksum_term )
     => (accepted' <=> TrailerStatesSum(seg'))]_vars

(***************************************************************************)
(* C14.                                                                    *)
(***************************************************************************)
\* C14: no decode call reads or writes term at an index outside 0..19.
C14_IndexWithinTerm == ~outside

(***************************************************************************)
(* C15.                                                                    *)
(***************************************************************************)
\* the bytes that reach the default case of decode's switch in this build,
\* byte 3 apart
IsOrdinary(b) ==
  CharVal(char_is_signed, b) \notin {TRIMBLE_ID, 36, 64, 20, 0, 32, 44, 58, 42, 13, 10, ETX}

\* C15: an ordinary byte that arrives with term full (term_offset = 19)
\* leaves term and term_offset as they are, is added to sum and, outside a
\* checksum token, XORed into parity; inside a checksum token no ordinary
\* byte changes parity.
C15_FullBuffer ==
  [][(op' = "decode" /\ IsOrdinary(byte')) =>
       /\ gps.term_offset = TermSize - 1 =>
            /\ gps'.term = gps.term
            /\ gps'.term_offset = gps.term_offset
            /\ gps'.sum = ToInt(gps.sum + byte')
            /\ ~gps.is_checksum_term => gps'.parity = Xor8(gps.parity, byte')
       /\ gps.is_checksum_term => gps'.parity = gps.parity]_vars

\* the 20th letter of a checksum token has arrived with term full: it is in
\* sum and not in parity
C15_Witness ==
  /\ seg = 34 /\ nseg = 1 /\ pos = TermSize + 3 /\ byte = 66
  /\ gps.term_offset = TermSize - 1 /\ gps.is_checksum_term
  /\ gps.parity = 65 /\ gps.sum = 36 + 65 + 42 + TermSize * 66

(***************************************************************************)
(* C16.                                                                    *)
(***************************************************************************)
\* C16: once term 0 of a sentence is complete, sentence_type is the type
\* that term names, and stays so for every later byte of the sentence.
C16_TypeDeterminedOnce ==
  (IsSentence /\ pos >= Len(Term0(SegPayload)) + 2) => gps.sentence_type = SegType

(***************************************************************************)
(* C17.                                                                    *)
(***************************************************************************)
\* where segment i has its sentence-start markers
MarkersOf(i) == {k \in DOMAIN SegBytes(i) : SegBytes(i)[k] \in {36, 64}}

\* segment i is one sentence: one start marker, with at most the id before it
OneSentence(i) ==
  /\ Cardinality(MarkersOf(i)) = 1
  /\ \A m \in MarkersOf(i) : \A k \in 1..(m - 1) : SegBytes(i)[k] = TRIMBLE_ID

\* C17: between a sentence-start marker and the next, decode returns true at
\* most once, whatever bytes are fed in between.
C17_OneTruePerSentence == (seg # 0 /\ OneSentence(seg)) => trues <= 1

(***************************************************************************)
(* C18.                                                                    *)
(***************************************************************************)
\* C18: an accessor returns true only if a sentence of its type was committed
\* since its previous call, or since construction if it was not called yet;
\* on a new decoder each accessor returns false.
C18_TrueOnlyAfterCommit ==
  [][ /\ (op' = "got_new_GGA_data" /\ ret') => pend.GGA = "yes"
      /\ (op' = "got_new_VTG_data" /\ ret') => pend.VTG = "yes"
      /\ (op' = "got_new_XTE_data" /\ ret') => pend.XTE = "yes" ]_vars

(***************************************************************************)
(* C19.                                                                    *)
(***************************************************************************)
\* C19: after decode of the id 191, as long as neither '*' nor byte 3 is
\* fed, no decode call returns true or changes what is published.
C19_IdResynchronizes ==
  [][( /\ op' = "decode" /\ Menu[seg'].kind = "resync"
       /\ pos' > Len(Menu[seg'].payload) + 1 )
     => (~ret' /\ Published(gps') = Published(gps))]_vars

(***************************************************************************)
(* C20.                                                                    *)
(***************************************************************************)
ShadowNames ==
  {"new_time", "new_latitude", "new_longitude", "new_altitude", "new_quality",
   "new_course", "new_speed", "new_xte"}

\* the shadow field that term n of a sentence of type t goes to
Selected(t, n) ==
  CASE t = "GGA" /\ n = 1 -> "new_time"
    [] t = "GGA" /\ n \in {2, 3} -> "new_latitude"
    [] t = "GGA" /\ n \in {4, 5} -> "new_longitude"
    [] t = "GGA" /\ n = 6 -> "new_quality"
    [] t = "GGA" /\ n = 9 -> "new_altitude"
    [] t = "VTG" /\ n = 1 -> "new_course"
    [] t = "VTG" /\ n = 5 -> "new_speed"
    [] t = "XTE" /\ n = 3 -> "new_xte"
    [] t = "XTE2" /\ n = 1 -> "new_xte"
    [] OTHER -> "none"

\* C20: the terminator that completes a payload token (term_number > 0, not
\* the checksum token) makes decode return false and changes no shadow field
\* but the one its sentence type and term number select, and none at all if
\* the token is empty, the term number is not listed or the type is OTHER.
C20_OneShadowPerToken ==
  [][( /\ op' = "decode" /\ CharVal(char_is_signed, byte') \in Terminators
       /\ ~gps.is_checksum_term /\ gps.term_number > 0 )
     => /\ ~ret'
        /\ \A f \in ShadowNames :
             gps'[f] # gps[f] =>
               /\ gps.term_offset > 0
               /\ f = Selected(gps.sentence_type, gps.term_number)]_vars

\* the comma after "4807.038" in the example sentence has set the shadow
\* latitude, the shadow time being set before and the longitude not yet
C20_Witness ==
  /\ seg = 8 /\ nseg = 1 /\ pos = 23 /\ byte = 44 /\ ~ret
  /\ gps.term_number = 3 /\ gps.sentence_type = "GGA"
  /\ gps.new_latitude = 48117 /\ gps.new_time = 123519000
  /\ gps.new_longitude = snap.new_longitude /\ gps.latitude = GPS_INVALID_FLOAT

=============================================================================
